---- MODULE Spec2Model ----
(***************************************************************************)
(* Model of the OS1 decoder node (ouster_ros/src/os1_decoder.cpp):         *)
(* the constructor (initial ConfigCb, calibration retrieval with fallback, *)
(* degree to radian conversion), the packet callback LidarPacketCb (sweep  *)
(* accumulation, image building, publication), the reconfiguration        *)
(* callback ConfigCb and the projection ToCloud.                           *)
(*                                                                         *)
(* Floating point values are represented in fixed point with unit 1e-6;    *)
(* the not-a-number sentinel kNaNF is a reserved value.                    *)
(* The 32-bit validity marker of a column is represented by its            *)
(* hexadecimal spelling.                                                   *)
(***************************************************************************)
EXTENDS Integers, Sequences, FiniteSets, TLC

VARIABLES
    pc,          \* position of main/Decoder::Decoder: "ctor","wait","call","convert","spin"
    provider,    \* the os1_config service: "absent", "failing" or "ok"
    info_,       \* Decoder::info_ (beam_altitude_angles, beam_azimuth_angles, mode, hostname)
    config_,     \* Decoder::config_
    buffer_,     \* Decoder::buffer_ : sequence of PacketMsg
    subscribed,  \* lidar_packet_sub_ / imu_packet_sub_ / publishers created
    fault,       \* the process died in a callback (out-of-bounds read)
    out,         \* messages handed to the publishers by the most recent callback
    last,        \* the most recent call: its name and its arguments
    sinceReset,  \* history: packets delivered since the last ConfigCb / emission
    dropped,     \* history: the most recent ConfigCb found packets in the buffer
    config2_,    \* second decoder of the paired run (same packets, same calibration)
    buffer2_,
    out2

vars == <<pc, provider, info_, config_, buffer_, subscribed, fault, out, last,
          sinceReset, dropped, config2_, buffer2_, out2>>

-----------------------------------------------------------------------------
(* Geometry of the packet layout, scaled down (the sensor has 16 columns   *)
(* per packet and 64 pixels per column).                                   *)
columns_per_buffer == 2
pixels_per_column == 2

(* Largest sweep, in packets, an incoming image_width can ask for. *)
MaxSweepPackets == 2

(* Incoming image_width values: the multiples of columns_per_buffer up to  *)
(* the largest sweep, and the last width before the next multiple.         *)
Widths ==
    {k * columns_per_buffer + d :
        k \in 0 .. MaxSweepPackets, d \in {0, columns_per_buffer - 1}}

(* Incoming min_range / max_range values. *)
RangeVals == {1, 2}

-----------------------------------------------------------------------------
(* std::numeric_limits<float>::quiet_NaN(): a reserved value no            *)
(* computation of the model produces.                                      *)
kNaNF == -999999999

(* std::isnan *)
isnan(x) == x = kNaNF

(* static constexpr float range_factor = 0.001f *)
range_factor == 1000

(* M_PI in fixed point. *)
M_PI == 3141593

Abs(x) == IF x < 0 THEN -x ELSE x
Sgn(x) == IF x < 0 THEN -1 ELSE 1

(* C++ integer division truncates toward zero. *)
CDiv(a, b) == Sgn(a) * Sgn(b) * (Abs(a) \div Abs(b))

(* deg * M_PI / 180.0, deg in whole degrees, result in fixed point radians *)
deg2rad(deg) == CDiv(deg * M_PI, 180)

TransformDeg2RadInPlace(vec) == [i \in DOMAIN vec |-> deg2rad(vec[i])]

(* std::cos / std::sin on the angles the model uses (multiples of a        *)
(* quarter turn, up to the rounding of the fixed point sums); the result   *)
(* is the exact value -1, 0 or 1.                                          *)
Quadrant(a) == ((2 * a + (M_PI \div 2)) \div M_PI) % 4
Cos(a) == CASE Quadrant(a) = 0 -> 1
            [] Quadrant(a) = 1 -> 0
            [] Quadrant(a) = 2 -> -1
            [] OTHER -> 0
Sin(a) == CASE Quadrant(a) = 0 -> 0
            [] Quadrant(a) = 1 -> 1
            [] Quadrant(a) = 2 -> 0
            [] OTHER -> -1

-----------------------------------------------------------------------------
(* Calibration tables, in degrees, one entry per beam row.                 *)
(* The built-in defaults of ouster/os1.h and a response of the service.    *)
Rows == 0 .. (pixels_per_column - 1)
Cols == 0 .. (columns_per_buffer - 1)

beam_altitude_angles == [r \in Rows |-> IF r = 0 THEN 90 ELSE 0]
beam_azimuth_angles == [r \in Rows |-> IF r % 2 = 0 THEN 0 ELSE 90]

imu_to_sensor_transform == "default_imu_to_sensor"
lidar_to_sensor_transform == "default_lidar_to_sensor"

SrvResponse ==
    [beam_altitude_angles |-> [r \in Rows |-> IF r = 0 THEN 0 ELSE 90],
     beam_azimuth_angles |-> [r \in Rows |-> IF r % 2 = 0 THEN 90 ELSE 0],
     imu_to_sensor_transform |-> "srv_imu_to_sensor",
     lidar_to_sensor_transform |-> "srv_lidar_to_sensor",
     lidar_mode |-> "2048x10",
     hostname |-> "os1-sensor"]

lidar_mode_of_string(s) ==
    CASE s = "512x10" -> "MODE_512x10"
      [] s = "1024x10" -> "MODE_1024x10"
      [] s = "2048x10" -> "MODE_2048x10"
      [] OTHER -> "MODE_UNSPEC"

(* info_ before the constructor fills it. *)
NoInfo == [beam_altitude_angles |-> << >>, beam_azimuth_angles |-> << >>,
           imu_to_sensor_transform |-> "", lidar_to_sensor_transform |-> "",
           mode |-> "", hostname |-> ""]

-----------------------------------------------------------------------------
(* Packets.  A PacketMsg carries a byte buffer; the accessors of           *)
(* ouster/os1_packet.h read fixed offsets of it.  A packet is represented  *)
(* by the fields the accessors return; short = TRUE says that the byte     *)
(* buffer is shorter than the layout, and then the fields are what lies in *)
(* memory behind the buffer.                                               *)
AllOnes == "ffffffff"
Zero == "00000000"
Partial == "fffffffe"

(* The kinds of packet the model delivers: every column valid, the first   *)
(* column zeroed, the last column with one marker bit cleared, no column   *)
(* valid.                                                                  *)
Kinds == {"valid", "first_bad", "last_partial", "all_bad"}

Marker(kind, icol) ==
    CASE kind = "valid" -> AllOnes
      [] kind = "first_bad" -> IF icol = 0 THEN Zero ELSE AllOnes
      [] kind = "last_partial" -> IF icol = columns_per_buffer - 1 THEN Partial ELSE AllOnes
      [] OTHER -> Zero

MkPacket(kind, k, short) ==
    [short |-> short,
     cols |-> [icol \in Cols |->
        [valid |-> Marker(kind, icol),
         h_angle |-> ((k + icol) % 2) * (M_PI \div 2),
         px |-> [ipx \in Rows |->
                   [range |-> 1000 * k + 10 * icol + ipx - 500,
                    reflectivity |-> k + ipx]]]]]

GoodPackets ==
    {MkPacket("valid", 1, FALSE), MkPacket("valid", 2, FALSE),
     MkPacket("first_bad", 2, FALSE), MkPacket("last_partial", 1, FALSE),
     MkPacket("all_bad", 1, FALSE)}
ShortPackets == {MkPacket(kind, 1, TRUE) : kind \in {"valid", "all_bad"}}

(* Accessors of the packet layout. *)
nth_col(icol, packet) == packet.cols[icol]
col_valid(col_buf) == col_buf.valid
col_h_angle(col_buf) == col_buf.h_angle
nth_px(ipx, col_buf) == col_buf.px[ipx]
px_range(px_buf) == px_buf.range
px_reflectivity(px_buf) == px_buf.reflectivity

-----------------------------------------------------------------------------
(* Configurations delivered by the reconfiguration channel: every width    *)
(* with the ranges in order, and every combination of ranges and           *)
(* full_sweep with the largest width.                                      *)
AllConfigs == [min_range : RangeVals, max_range : RangeVals, image_width : Widths,
               organized : BOOLEAN, full_sweep : BOOLEAN]
WidestIn == MaxSweepPackets * columns_per_buffer + columns_per_buffer - 1
Configs ==
    {c \in AllConfigs :
        \/ (c.min_range = 1 /\ c.max_range = 2 /\ ~c.full_sweep)
        \/ c.image_width = WidestIn}

Min(a, b) == IF a < b THEN a ELSE b

(* Mutant: the clamp raises max_range instead of lowering min_range. *)
ClampMaxRange(config) ==
    [config EXCEPT !.max_range =
        IF config.min_range > config.max_range THEN config.min_range
        ELSE config.max_range]

(* line 147 *)
ClampMinRange(config) ==
    [config EXCEPT !.min_range = Min(config.min_range, config.max_range)]

(* Mutant: the width is rounded up to the next multiple. *)
CeilWidth(config) ==
    [config EXCEPT
        !.image_width =
            CDiv(config.image_width + columns_per_buffer - 1, columns_per_buffer)
                * columns_per_buffer]

(* lines 150-151 *)
FloorWidth(config) ==
    [config EXCEPT
        !.image_width = CDiv(config.image_width, columns_per_buffer) * columns_per_buffer]

(* lines 146-151: the normalisation ConfigCb applies to its argument *)
Normalize(config) == FloorWidth(ClampMinRange(config))

-----------------------------------------------------------------------------
(* Image building, lines 85-122. *)

(* cv::Mat(rows, cols, CV_32FC3, cv::Scalar(kNaNF)): cv::Scalar(v) is      *)
(* (v, 0, 0, 0), so the first channel of every cell is the sentinel and    *)
(* the other two are zero.                                                 *)
NewImage(rows, cols) ==
    [rows |-> rows, cols |-> cols,
     at |-> [rc \in (0 .. (rows - 1)) \X (0 .. (cols - 1)) |-> <<kNaNF, 0, 0>>]]

(* Mutant: a column counts as valid when its marker is not zero. *)
IsValidNonZero(col_buf) == col_valid(col_buf) # Zero

(* line 98 *)
IsValid(col_buf) == col_valid(col_buf) = AllOnes

(* Mutant: the packet index is not scaled by the columns of a packet. *)
ColIndexNoStride(ibuf, icol) == ibuf + icol

(* line 108 *)
ColIndex(ibuf, icol) == ibuf * columns_per_buffer + icol

(* lines 116-119: the cell written for beam ipx of a valid column *)
Cell(col_buf, ipx, info) ==
    <<px_range(nth_px(ipx, col_buf)) * range_factor,
      px_reflectivity(nth_px(ipx, col_buf)),
      col_h_angle(col_buf) + info.beam_azimuth_angles[ipx]>>

(* lines 112-120: the beam loop writes image.at(ipx, col) for every ipx *)
WriteColumn(image, col, col_buf, info) ==
    [image EXCEPT !.at =
        [rc \in DOMAIN image.at |->
            IF rc[2] = col /\ rc[1] \in Rows
            THEN Cell(col_buf, rc[1], info)
            ELSE image.at[rc]]]

(* lines 94-121: one iteration of the column loop *)
DecodeColumn(image, ibuf, icol, packet, info) ==
    LET col_buf == nth_col(icol, packet)
    IN IF ~IsValid(col_buf)
       THEN image
       ELSE WriteColumn(image, ColIndex(ibuf, icol), col_buf, info)

(* lines 89-122: both loops, from iteration n = ibuf * columns_per_buffer  *)
(* + icol on; buffer is 1-based here, ibuf 0-based as in the code.         *)
RECURSIVE DecodeFrom(_, _, _, _)
DecodeFrom(image, buffer, info, n) ==
    IF n >= Len(buffer) * columns_per_buffer
    THEN image
    ELSE LET ibuf == n \div columns_per_buffer
             icol == n % columns_per_buffer
         IN DecodeFrom(DecodeColumn(image, ibuf, icol, buffer[ibuf + 1], info),
                       buffer, info, n + 1)

BuildImage(buffer, info) ==
    DecodeFrom(NewImage(pixels_per_column, Len(buffer) * columns_per_buffer),
               buffer, info, 0)

-----------------------------------------------------------------------------
(* ToCloud, lines 180-237. *)

NaNPoint == [x |-> kNaNF, y |-> kNaNF, z |-> kNaNF, intensity |-> kNaNF]

(* Mutant: y keeps the sign of the formula in the comment of line 210. *)
ProjectNoFlip(data, phi) ==
    [x |-> data[1] * Cos(phi) * Cos(data[3]),
     y |-> data[1] * Cos(phi) * Sin(data[3]),
     z |-> data[1] * Sin(phi),
     intensity |-> data[2]]

(* lines 212-221 *)
Project(data, phi) ==
    LET theta == data[3]
        d == data[1]
        x == d * Cos(phi) * Cos(theta)
        y == d * Cos(phi) * Sin(theta)
        z == d * Sin(phi)
    IN [x |-> x, y |-> -y, z |-> z, intensity |-> data[2]]

(* Mutant: no placeholder is pushed for an empty cell. *)
CellPointsNoPlaceholder(data, phi, organized) ==
    IF isnan(data[1]) THEN << >> ELSE <<Project(data, phi)>>

(* lines 201-224: the points one cell appends *)
CellPoints(data, phi, organized) ==
    IF isnan(data[1])
    THEN IF organized THEN <<NaNPoint>> ELSE << >>
    ELSE <<Project(data, phi)>>

(* Mutant: the cells are visited column by column. *)
RECURSIVE PointsFromColumnMajor(_, _, _, _)
PointsFromColumnMajor(image, altitude_angles, organized, n) ==
    IF n >= image.rows * image.cols
    THEN << >>
    ELSE LET r == n % image.rows
             c == n \div image.rows
         IN CellPoints(image.at[<<r, c>>], altitude_angles[r], organized)
            \o PointsFromColumnMajor(image, altitude_angles, organized, n + 1)

(* lines 191-226: the loops over r and c, from cell n = r * cols + c on *)
RECURSIVE PointsFrom(_, _, _, _)
PointsFrom(image, altitude_angles, organized, n) ==
    IF n >= image.rows * image.cols
    THEN << >>
    ELSE LET r == n \div image.cols
             c == n % image.cols
         IN CellPoints(image.at[<<r, c>>], altitude_angles[r], organized)
            \o PointsFrom(image, altitude_angles, organized, n + 1)

ToCloud(image, altitude_angles, organized) ==
    LET points == PointsFrom(image, altitude_angles, organized, 0)
    IN IF organized
       THEN [points |-> points, width |-> image.cols, height |-> image.rows]
       ELSE [points |-> points, width |-> Len(points), height |-> 1]

-----------------------------------------------------------------------------
(* The state machine. *)

(* config_ before the first ConfigCb; the packet and the configuration of  *)
(* a call that has none.                                                   *)
NoConfig == [min_range |-> 0, max_range |-> 0, image_width |-> 0,
             organized |-> FALSE, full_sweep |-> FALSE]
NoPacket == [short |-> FALSE, cols |-> << >>]

NoCall == [op |-> "none", packet |-> NoPacket, config |-> NoConfig, level |-> 0]
Call(op, packet, config, level) ==
    [op |-> op, packet |-> packet, config |-> config, level |-> level]

(* Mutant: the cloud is published before the image. *)
PublishCloudFirst(image, info, organized) ==
    <<[topic |-> "cloud",
       cloud |-> ToCloud(image, info.beam_altitude_angles, organized)],
      [topic |-> "image", image |-> image, D |-> info.beam_altitude_angles]>>

(* lines 124-136: the two publications of a completed sweep, in order *)
Publish(image, info, organized) ==
    <<[topic |-> "image", image |-> image, D |-> info.beam_altitude_angles],
      [topic |-> "cloud",
       cloud |-> ToCloud(image, info.beam_altitude_angles, organized)]>>

(* Mutant: the sweep is ready only when the width is exceeded. *)
SweepReadyLate(config, buffer) ==
    ~(Len(buffer) * columns_per_buffer <= config.image_width)

(* Mutant: only the valid columns count toward the width. *)
SweepReadyValidOnly(config, buffer) ==
    ~(Cardinality({<<i, icol>> \in (1 .. Len(buffer)) \X Cols :
                      IsValid(nth_col(icol, buffer[i]))})
        < config.image_width)

(* line 78: size_t curr_width against int image_width.  The comparison is  *)
(* unsigned; the widths of the model are never negative.                   *)
SweepReady(config, buffer) ==
    ~(Len(buffer) * columns_per_buffer < config.image_width)

(* Mutant: cells whose range lies outside [min_range, max_range] are       *)
(* emptied before projection.  One metre is 1000 * range_factor.           *)
FilterRange(image, config) ==
    [image EXCEPT !.at =
        [rc \in DOMAIN image.at |->
            IF ~isnan(image.at[rc][1])
               /\ (image.at[rc][1] < config.min_range * 1000 * range_factor
                   \/ image.at[rc][1] > config.max_range * 1000 * range_factor)
            THEN <<kNaNF, 0, 0>>
            ELSE image.at[rc]]]

LidarResultRangeFiltered(config, buffer, info, packet_msg) ==
    LET pushed == Append(buffer, packet_msg)
    IN IF ~SweepReady(config, pushed)
       THEN [buffer |-> pushed, out |-> << >>]
       ELSE [buffer |-> << >>,
             out |-> Publish(FilterRange(BuildImage(pushed, info), config),
                             info, config.organized)]

(* Mutant: LidarPacketCb without line 138, the buffer survives emission. *)
LidarResultNoClear(config, buffer, info, packet_msg) ==
    LET pushed == Append(buffer, packet_msg)
    IN IF ~SweepReady(config, pushed)
       THEN [buffer |-> pushed, out |-> << >>]
       ELSE [buffer |-> pushed,
             out |-> Publish(BuildImage(pushed, info), info, config.organized)]

(* LidarPacketCb as a function of the decoder's fields: the buffer it      *)
(* leaves and the messages it publishes.                                   *)
LidarResult(config, buffer, info, packet_msg) ==
    LET pushed == Append(buffer, packet_msg)
    IN IF ~SweepReady(config, pushed)
       THEN [buffer |-> pushed, out |-> << >>]
       ELSE [buffer |-> << >>,
             out |-> Publish(BuildImage(pushed, info), info, config.organized)]

HasShort(buffer) == \E i \in 1 .. Len(buffer) : buffer[i].short

(* Mutant: ConfigCb without line 161, the buffer survives. *)
ConfigResultKeepBuffer(config, buffer) ==
    [config |-> FloorWidth(ClampMinRange(config)), buffer |-> buffer]

(* ConfigCb as a function of its argument and the buffer: lines 146-162 *)
ConfigResult(config, buffer) == [config |-> Normalize(config), buffer |-> << >>]

Init ==
    /\ pc = "ctor"
    /\ provider \in {"absent", "failing", "ok"}
    /\ info_ = NoInfo
    /\ config_ = NoConfig
    /\ buffer_ = << >>
    /\ subscribed = FALSE
    /\ fault = FALSE
    /\ out = << >>
    /\ last = NoCall
    /\ sinceReset = << >>
    /\ dropped = FALSE
    /\ config2_ = NoConfig
    /\ buffer2_ = << >>
    /\ out2 = << >>

(* The os1_config service appears, disappears or starts failing while the  *)
(* node is starting.                                                       *)
ProviderChange ==
    /\ pc \in {"ctor", "wait", "call"}
    /\ provider' \in {"absent", "failing", "ok"} \ {provider}
    /\ UNCHANGED <<pc, info_, config_, buffer_, subscribed, fault, out, last,
                   sinceReset, dropped, config2_, buffer2_, out2>>

(* The part of ConfigCb on the first decoder. *)
ConfigMain(config, level) ==
    /\ config_' = ConfigResult(config, buffer_).config
    /\ buffer_' = ConfigResult(config, buffer_).buffer
    /\ subscribed' = (subscribed \/ level < 0)
    /\ out' = << >>
    /\ sinceReset' = << >>
    /\ dropped' = (Len(buffer_) > 0)
    /\ last' = Call("ConfigCb", NoPacket, config, level)
    /\ UNCHANGED <<provider, info_, fault>>

(* line 36: server_.setCallback calls ConfigCb at once with the initial    *)
(* configuration and level -1, which creates the subscriptions.            *)
Construct ==
    /\ pc = "ctor"
    /\ \E config \in Configs : ConfigMain(config, -1)
    /\ pc' = "wait"
    /\ UNCHANGED <<config2_, buffer2_, out2>>

(* line 41: client.waitForExistence() returns when the service exists *)
WaitForExistence ==
    /\ pc = "wait"
    /\ provider # "absent"
    /\ pc' = "call"
    /\ UNCHANGED <<provider, info_, config_, buffer_, subscribed, fault, out, last,
                   sinceReset, dropped, config2_, buffer2_, out2>>

(* Mutant: the fallback branch without line 57. *)
CallServiceNoAzimuth ==
    /\ pc = "call"
    /\ info_' = IF provider = "ok"
                THEN [beam_altitude_angles |-> SrvResponse.beam_altitude_angles,
                      beam_azimuth_angles |-> SrvResponse.beam_azimuth_angles,
                      imu_to_sensor_transform |-> SrvResponse.imu_to_sensor_transform,
                      lidar_to_sensor_transform |-> SrvResponse.lidar_to_sensor_transform,
                      mode |-> lidar_mode_of_string(SrvResponse.lidar_mode),
                      hostname |-> SrvResponse.hostname]
                ELSE [beam_altitude_angles |-> beam_altitude_angles,
                      beam_azimuth_angles |-> << >>,
                      imu_to_sensor_transform |-> imu_to_sensor_transform,
                      lidar_to_sensor_transform |-> lidar_to_sensor_transform,
                      mode |-> "MODE_1024x10",
                      hostname |-> "UNKNOWN"]
    /\ pc' = "convert"
    /\ UNCHANGED <<provider, config_, buffer_, subscribed, fault, out, last,
                   sinceReset, dropped, config2_, buffer2_, out2>>

(* lines 45-62 *)
CallService ==
    /\ pc = "call"
    /\ info_' = IF provider = "ok"
                THEN [beam_altitude_angles |-> SrvResponse.beam_altitude_angles,
                      beam_azimuth_angles |-> SrvResponse.beam_azimuth_angles,
                      imu_to_sensor_transform |-> SrvResponse.imu_to_sensor_transform,
                      lidar_to_sensor_transform |-> SrvResponse.lidar_to_sensor_transform,
                      mode |-> lidar_mode_of_string(SrvResponse.lidar_mode),
                      hostname |-> SrvResponse.hostname]
                ELSE [beam_altitude_angles |-> beam_altitude_angles,
                      beam_azimuth_angles |-> beam_azimuth_angles,
                      imu_to_sensor_transform |-> imu_to_sensor_transform,
                      lidar_to_sensor_transform |-> lidar_to_sensor_transform,
                      mode |-> "MODE_1024x10",
                      hostname |-> "UNKNOWN"]
    /\ pc' = "convert"
    /\ UNCHANGED <<provider, config_, buffer_, subscribed, fault, out, last,
                   sinceReset, dropped, config2_, buffer2_, out2>>

(* Mutant: the constructor without line 66. *)
ConvertAnglesAltitudeOnly ==
    /\ pc = "convert"
    /\ info_' = [info_ EXCEPT
                    !.beam_altitude_angles = TransformDeg2RadInPlace(@)]
    /\ pc' = "spin"
    /\ UNCHANGED <<provider, config_, buffer_, subscribed, fault, out, last,
                   sinceReset, dropped, config2_, buffer2_, out2>>

(* lines 65-70, then main reaches ros::spin() *)
ConvertAngles ==
    /\ pc = "convert"
    /\ info_' = [info_ EXCEPT
                    !.beam_altitude_angles = TransformDeg2RadInPlace(@),
                    !.beam_azimuth_angles = TransformDeg2RadInPlace(@)]
    /\ pc' = "spin"
    /\ UNCHANGED <<provider, config_, buffer_, subscribed, fault, out, last,
                   sinceReset, dropped, config2_, buffer2_, out2>>

(* Callbacks run from ros::spin(), one at a time. *)
Spinning == pc = "spin" /\ subscribed /\ ~fault

(* The part of LidarPacketCb on the first decoder.  Decoding a packet      *)
(* whose buffer is short reads behind the buffer: the read either returns  *)
(* what lies there or ends the process.                                    *)
LidarMain(packet_msg) ==
    LET res == LidarResult(config_, buffer_, info_, packet_msg)
        pushed == Append(buffer_, packet_msg)
        reads == SweepReady(config_, pushed) /\ HasShort(pushed)
    IN /\ Spinning
       /\ \E crash \in (IF reads THEN BOOLEAN ELSE {FALSE}) :
            IF crash
            THEN /\ fault' = TRUE
                 /\ buffer_' = pushed
                 /\ out' = << >>
                 /\ sinceReset' = Append(sinceReset, packet_msg)
            ELSE /\ fault' = FALSE
                 /\ buffer_' = res.buffer
                 /\ out' = res.out
                 /\ sinceReset' = IF res.out # << >> THEN << >>
                                   ELSE Append(sinceReset, packet_msg)
       /\ last' = Call("LidarPacketCb", packet_msg, NoConfig, 0)
       /\ UNCHANGED <<pc, provider, info_, config_, subscribed, dropped>>

LidarPacketCb(packet_msg) ==
    /\ LidarMain(packet_msg)
    /\ UNCHANGED <<config2_, buffer2_, out2>>

(* Mutant: the motion packet is pushed into the sweep buffer. *)
ImuPacketCbBuffers(packet) ==
    /\ Spinning
    /\ out' = << >>
    /\ buffer_' = Append(buffer_, packet)
    /\ last' = Call("ImuPacketCb", NoPacket, NoConfig, 0)
    /\ UNCHANGED <<pc, provider, info_, config_, subscribed, fault,
                   sinceReset, dropped, config2_, buffer2_, out2>>

(* lines 141-143 *)
ImuPacketCb(packet) ==
    /\ Spinning
    /\ out' = << >>
    /\ last' = Call("ImuPacketCb", NoPacket, NoConfig, 0)
    /\ UNCHANGED <<pc, provider, info_, config_, buffer_, subscribed, fault,
                   sinceReset, dropped, config2_, buffer2_, out2>>

(* lines 145-178, called by the reconfigure server with level >= 0 *)
ConfigCb(config, level) ==
    /\ Spinning
    /\ ConfigMain(config, level)
    /\ UNCHANGED <<pc, config2_, buffer2_, out2>>

Next ==
    \/ ProviderChange
    \/ Construct
    \/ WaitForExistence
    \/ CallService
    \/ ConvertAngles
    \/ \E packet_msg \in GoodPackets : LidarPacketCb(packet_msg)
    \/ \E packet \in GoodPackets : ImuPacketCb(packet)
    \/ \E config \in Configs : ConfigCb(config, 0)

Spec == Init /\ [][Next]_vars

(* The constructor's steps are taken when they can be. *)
FairSpec ==
    /\ Init /\ [][Next]_vars
    /\ WF_vars(Construct) /\ WF_vars(WaitForExistence)
    /\ WF_vars(CallService) /\ WF_vars(ConvertAngles)

(* The packet source also delivers packets whose buffer is short. *)
NextShort ==
    \/ Next
    \/ \E packet_msg \in ShortPackets : LidarPacketCb(packet_msg)

SpecShort == Init /\ [][NextShort]_vars

-----------------------------------------------------------------------------
(* The paired run: two decoders with the same calibration receive the same *)
(* packets, and configurations that agree on image_width and organized.    *)

PairBase == {c \in AllConfigs : c.min_range = 1 /\ c.max_range = 2 /\ ~c.full_sweep}
Variants(config) ==
    {c \in AllConfigs :
        /\ c.image_width = config.image_width
        /\ c.organized = config.organized
        /\ <<c.min_range, c.max_range, c.full_sweep>> \in
              {<<1, 1, TRUE>>, <<2, 2, FALSE>>, <<1, 2, TRUE>>, <<2, 1, FALSE>>}}

ConfigSecond(config2) ==
    /\ config2_' = ConfigResult(config2, buffer2_).config
    /\ buffer2_' = ConfigResult(config2, buffer2_).buffer
    /\ out2' = << >>

ConstructPair ==
    /\ pc = "ctor"
    /\ \E config \in PairBase :
         /\ ConfigMain(config, -1)
         /\ \E config2 \in Variants(config) : ConfigSecond(config2)
    /\ pc' = "wait"

ConfigCbPair ==
    /\ Spinning
    /\ \E config \in PairBase :
         /\ ConfigMain(config, 0)
         /\ \E config2 \in Variants(config) : ConfigSecond(config2)
    /\ UNCHANGED pc

LidarPacketCbPair(packet_msg) ==
    /\ LidarMain(packet_msg)
    /\ buffer2_' = LidarResult(config2_, buffer2_, info_, packet_msg).buffer
    /\ out2' = LidarResult(config2_, buffer2_, info_, packet_msg).out
    /\ UNCHANGED config2_

NextPair ==
    \/ ProviderChange
    \/ ConstructPair
    \/ WaitForExistence
    \/ CallService
    \/ ConvertAngles
    \/ \E packet_msg \in GoodPackets : LidarPacketCbPair(packet_msg)
    \/ ConfigCbPair

SpecPair == Init /\ [][NextPair]_vars

-----------------------------------------------------------------------------
(* Properties. *)

Emitted == out # << >>

(* C1: with a stored image_width W that is a positive multiple of          *)
(* columns_per_buffer, the n-th packet delivered since the buffer was last *)
(* reset (by a reconfiguration or an emission) emits a sweep exactly when  *)
(* n = W / columns_per_buffer, inside that very call, and n never exceeds  *)
(* W / columns_per_buffer.                                                 *)
C1_SweepOnLastPacket ==
    [][(last'.op = "LidarPacketCb" /\ config_.image_width > 0
            /\ config_.image_width % columns_per_buffer = 0)
        => LET n == Len(sinceReset) + 1
               target == config_.image_width \div columns_per_buffer
           IN /\ n <= target
              /\ (out' # << >>) <=> (n = target)
              /\ (n < target) => (out' = << >> /\ Len(buffer_') = n)]_vars

(* C1 witness: a sweep of at least two packets was emitted by the last call *)
C1_Witness ==
    /\ last.op = "LidarPacketCb"
    /\ Emitted
    /\ config_.image_width >= 2 * columns_per_buffer
    /\ out[1].image.cols = config_.image_width

(* The cell the image must hold at row ipx for column icol of packet pk. *)
ExpectedCell(pk, icol, ipx, info) ==
    IF pk.cols[icol].valid = AllOnes
    THEN <<pk.cols[icol].px[ipx].range * range_factor,
           pk.cols[icol].px[ipx].reflectivity,
           pk.cols[icol].h_angle + info.beam_azimuth_angles[ipx]>>
    ELSE <<kNaNF, 0, 0>>

(* C2: every emitted sweep is built from exactly the packets delivered     *)
(* since the most recent ConfigCb and the most recent emission, in arrival *)
(* order; a ConfigCb call emits nothing.                                   *)
C2_SweepFromPacketsSinceReset ==
    [][/\ (last'.op = "ConfigCb") => (out' = << >>)
       /\ (out' # << >>) =>
            LET pks == Append(sinceReset, last'.packet)
                image == out'[1].image
            IN /\ last'.op = "LidarPacketCb"
               /\ image.cols = Len(pks) * columns_per_buffer
               /\ image.rows = pixels_per_column
               /\ \A ibuf \in 0 .. (Len(pks) - 1) : \A icol \in Cols : \A ipx \in Rows :
                     image.at[<<ipx, ibuf * columns_per_buffer + icol>>]
                        = ExpectedCell(pks[ibuf + 1], icol, ipx, info_)]_vars

(* C2 witness: a sweep of two packets or more was emitted after a          *)
(* reconfiguration that found packets in the buffer.                       *)
C2_Witness ==
    /\ last.op = "LidarPacketCb"
    /\ Emitted
    /\ dropped
    /\ out[1].image.cols >= 2 * columns_per_buffer

(* C3 (the claim): a packet whose buffer is short is skipped: the call     *)
(* leaves the buffer as it was, publishes nothing and raises no fault.     *)
C3_ShortPacketSkipped ==
    [][(last'.op = "LidarPacketCb" /\ last'.packet.short)
        => (buffer_' = buffer_ /\ out' = << >> /\ ~fault')]_vars

(* C4: after ConfigCb the stored configuration has min_range <= max_range, *)
(* max_range is the incoming one, and an incoming min_range > max_range    *)
(* is stored as min_range = max_range = incoming max_range.                *)
C4_RangeClamped ==
    (last.op = "ConfigCb") =>
        /\ config_.max_range = last.config.max_range
        /\ config_.min_range <= config_.max_range
        /\ (last.config.min_range > last.config.max_range)
              => (config_.min_range = last.config.max_range)
        /\ (last.config.min_range <= last.config.max_range)
              => (config_.min_range = last.config.min_range)

C4_Witness ==
    /\ last.op = "ConfigCb"
    /\ last.config.min_range > last.config.max_range
    /\ config_.min_range = config_.max_range

DropColumn(image, col) ==
    [rows |-> image.rows, cols |-> image.cols - 1,
     at |-> [rc \in (0 .. (image.rows - 1)) \X (0 .. (image.cols - 2)) |->
                image.at[<<rc[1], IF rc[2] < col THEN rc[2] ELSE rc[2] + 1>>]]]

(* C6: in every emitted sweep, a column whose validity marker is not       *)
(* 0xffffffff has the sentinel in the range channel of every beam row,     *)
(* and in unorganized mode the cloud is the one the image without that     *)
(* column gives: the column contributes no point.                          *)
C6_InvalidColumnEmpty ==
    [][(out' # << >>) =>
        LET pks == Append(sinceReset, last'.packet)
            image == out'[1].image
            cloud == out'[2].cloud
        IN \A ibuf \in 0 .. (Len(pks) - 1) : \A icol \in Cols :
             (pks[ibuf + 1].cols[icol].valid # AllOnes) =>
                LET col == ibuf * columns_per_buffer + icol
                IN /\ \A r \in Rows : isnan(image.at[<<r, col>>][1])
                   /\ (~config_.organized) =>
                        cloud.points
                          = ToCloud(DropColumn(image, col), out'[1].D, FALSE).points]_vars

(* C6 witness: an unorganized sweep with an empty last column (the marker  *)
(* 0xfffffffe) and points from other columns.                              *)
C6_Witness ==
    /\ Emitted
    /\ ~config_.organized
    /\ last.packet.cols[columns_per_buffer - 1].valid = Partial
    /\ \A r \in Rows : isnan(out[1].image.at[<<r, out[1].image.cols - 1>>][1])
    /\ Len(out[2].cloud.points) > 0

(* Number of cells of the image with a non-sentinel range. *)
NonEmptyCells(image) ==
    Cardinality({rc \in DOMAIN image.at : ~isnan(image.at[rc][1])})

(* C7: for an emitted image of R rows, C columns and K non-sentinel cells, *)
(* the organized cloud has R*C points, width C, height R; the unorganized  *)
(* cloud has K points, height 1, width K; width * height is the number of  *)
(* points in both modes.                                                   *)
C7_CloudShape ==
    Emitted =>
        LET image == out[1].image
            cloud == out[2].cloud
            K == NonEmptyCells(image)
        IN /\ cloud.width * cloud.height = Len(cloud.points)
           /\ config_.organized =>
                /\ Len(cloud.points) = image.rows * image.cols
                /\ cloud.width = image.cols
                /\ cloud.height = image.rows
           /\ (~config_.organized) =>
                /\ Len(cloud.points) = K
                /\ cloud.height = 1
                /\ cloud.width = K

(* C7 witness: an organized sweep with empty and non-empty cells *)
C7_Witness ==
    /\ Emitted
    /\ config_.organized
    /\ NonEmptyCells(out[1].image) > 0
    /\ NonEmptyCells(out[1].image) < out[1].image.rows * out[1].image.cols
    /\ out[1].image.cols > out[1].image.rows

(* C8 (the claim): when the calibration provider is never reachable, the   *)
(* constructor still finishes, with the default calibration.               *)
C8_ConstructedWithoutProvider ==
    <>(provider # "absent" \/ (pc = "spin" /\ info_.mode = "MODE_1024x10"))

(* C9: a LidarPacketCb call that completes a sweep publishes exactly one   *)
(* image and then exactly one cloud, the cloud built from that image;      *)
(* every other call publishes nothing.                                     *)
C9_OneImageThenOneCloud ==
    [][LET completes ==
            /\ last'.op = "LidarPacketCb"
            /\ (Len(buffer_) + 1) * columns_per_buffer >= config_.image_width
       IN IF completes
          THEN /\ Len(out') = 2
               /\ out'[1].topic = "image"
               /\ out'[2].topic = "cloud"
               /\ out'[2].cloud
                    = ToCloud(out'[1].image, out'[1].D, config_.organized)
          ELSE out' = << >>]_vars

C9_Witness ==
    /\ Emitted
    /\ last.op = "LidarPacketCb"
    /\ Len(out) = 2
    /\ Len(out[2].cloud.points) > 0

(* C10: two decoders fed the same packets and calibration, with            *)
(* configurations that agree on image_width and organized, publish the     *)
(* same messages at the same packets, whatever min_range, max_range and    *)
(* full_sweep are.                                                         *)
C10_RangeAndFullSweepIgnored ==
    /\ out = out2
    /\ Len(buffer_) = Len(buffer2_)

C10_Witness ==
    /\ Emitted
    /\ out2 # << >>
    /\ config_.max_range # config2_.max_range
    /\ config_.full_sweep # config2_.full_sweep
    /\ config_.image_width = config2_.image_width
    /\ Len(out[2].cloud.points) > 0

(* C11: ImuPacketCb leaves the sweep buffer, the configuration and the     *)
(* calibration as they are and publishes nothing, so motion packets        *)
(* interleaved with lidar packets change no sweep.                         *)
C11_ImuPacketIgnored ==
    [][(last'.op = "ImuPacketCb") =>
        /\ buffer_' = buffer_
        /\ config_' = config_
        /\ info_' = info_
        /\ sinceReset' = sinceReset
        /\ out' = << >>
        /\ ~fault']_vars

(* C11 witness: a motion packet arrived in the middle of a sweep *)
C11_Witness ==
    /\ last.op = "ImuPacketCb"
    /\ Len(buffer_) > 0
    /\ out = << >>

(* C12: in an organized cloud the point of every non-empty cell (r, c),    *)
(* with d the range, theta the azimuth of the cell and phi the altitude of *)
(* row r, is x = d cos(phi) cos(theta), y = -(d cos(phi) sin(theta)),      *)
(* z = d sin(phi), intensity = reflectivity; range 10 at altitude 0 gives  *)
(* (10, 0, 0) at azimuth 0 and (0, -10, 0) at azimuth pi/2.                *)
C12_ProjectionFormula ==
    /\ (Emitted /\ config_.organized) =>
        LET image == out[1].image
            cloud == out[2].cloud
        IN \A r \in 0 .. (image.rows - 1) : \A c \in 0 .. (image.cols - 1) :
             LET data == image.at[<<r, c>>]
                 p == cloud.points[r * image.cols + c + 1]
                 phi == out[1].D[r]
             IN (~isnan(data[1])) =>
                  /\ p.x = data[1] * Cos(phi) * Cos(data[3])
                  /\ p.y = -(data[1] * Cos(phi) * Sin(data[3]))
                  /\ p.z = data[1] * Sin(phi)
                  /\ p.intensity = data[2]
    /\ (pc = "spin") =>
        /\ Project(<<10000 * range_factor, 7, 0>>, 0)
             = [x |-> 10000 * range_factor, y |-> 0, z |-> 0, intensity |-> 7]
        /\ Project(<<10000 * range_factor, 7, M_PI \div 2>>, 0)
             = [x |-> 0, y |-> -(10000 * range_factor), z |-> 0, intensity |-> 7]

(* C12 witness: an organized cloud with a point off the x axis (y # 0) and *)
(* a point on the z axis                                                   *)
C12_Witness ==
    /\ Emitted
    /\ config_.organized
    /\ \E i \in 1 .. Len(out[2].cloud.points) :
         out[2].cloud.points[i].y # kNaNF /\ out[2].cloud.points[i].y < 0
    /\ \E i \in 1 .. Len(out[2].cloud.points) :
         out[2].cloud.points[i].z # kNaNF /\ out[2].cloud.points[i].z > 0

(* C13: an emitted sweep of B packets has pixels_per_column rows and       *)
(* B * columns_per_buffer columns; the valid column icol of packet ibuf    *)
(* makes every beam row of image column ibuf * columns_per_buffer + icol   *)
(* non-sentinel, row ipx carrying the azimuth offset of calibration index  *)
(* ipx; the column indices of distinct (ibuf, icol) are distinct and lie   *)
(* in [0, B * columns_per_buffer); every other cell is as initialised.     *)
C13_ColumnLayout ==
    [][(out' # << >>) =>
        LET pks == Append(sinceReset, last'.packet)
            B == Len(pks)
            image == out'[1].image
            Pairs == (0 .. (B - 1)) \X Cols
            Written == {ColIndex(q[1], q[2]) : q \in
                          {q \in Pairs : pks[q[1] + 1].cols[q[2]].valid = AllOnes}}
        IN /\ image.rows = pixels_per_column
           /\ image.cols = B * columns_per_buffer
           /\ DOMAIN image.at = Rows \X (0 .. (B * columns_per_buffer - 1))
           /\ \A q1 \in Pairs : \A q2 \in Pairs :
                 /\ ColIndex(q1[1], q1[2]) \in 0 .. (B * columns_per_buffer - 1)
                 /\ (q1 # q2) => (ColIndex(q1[1], q1[2]) # ColIndex(q2[1], q2[2]))
           /\ \A q \in Pairs : \A ipx \in Rows :
                 LET col_buf == pks[q[1] + 1].cols[q[2]]
                     v == image.at[<<ipx, q[1] * columns_per_buffer + q[2]>>]
                 IN (col_buf.valid = AllOnes) =>
                      /\ ~isnan(v[1])
                      /\ v[3] = col_buf.h_angle + info_.beam_azimuth_angles[ipx]
           /\ \A rc \in DOMAIN image.at :
                 (rc[2] \notin Written) => (image.at[rc] = <<kNaNF, 0, 0>>)]_vars

(* C13 witness: a sweep of two packets or more with written and unwritten  *)
(* columns in its second packet                                            *)
C13_Witness ==
    /\ Emitted
    /\ out[1].image.cols >= 2 * columns_per_buffer
    /\ isnan(out[1].image.at[<<0, columns_per_buffer>>][1])
    /\ ~isnan(out[1].image.at[<<0, 2 * columns_per_buffer - 1>>][1])
    /\ ~isnan(out[1].image.at[<<0, 0>>][1])

(* C14: a LidarPacketCb call emits exactly when the packets delivered      *)
(* since the last reset, this one included, reach image_width, whatever    *)
(* the validity of their columns; the emission is never replaced by a      *)
(* fault.                                                                  *)
C14_EmissionIgnoresValidity ==
    [][(last'.op = "LidarPacketCb") =>
        /\ (out' # << >>)
             <=> ((Len(sinceReset) + 1) * columns_per_buffer >= config_.image_width)
        /\ ~fault']_vars

(* C14 witness: a sweep of two packets or more without one valid column *)
C14_Witness ==
    /\ Emitted
    /\ out[1].image.cols >= 2 * columns_per_buffer
    /\ \A rc \in DOMAIN out[1].image.at : isnan(out[1].image.at[rc][1])

(* C15: the buffer is empty after every ConfigCb call and after every      *)
(* LidarPacketCb call that emitted; a LidarPacketCb call that does not     *)
(* emit appends its packet to the buffer and changes nothing else.         *)
C15_BufferClearedOrGrown ==
    [][/\ (last'.op = "ConfigCb") => (buffer_' = << >>)
       /\ (last'.op = "LidarPacketCb" /\ out' # << >>) => (buffer_' = << >>)
       /\ (last'.op = "LidarPacketCb" /\ out' = << >>) =>
            /\ buffer_' = Append(buffer_, last'.packet)
            /\ config_' = config_
            /\ info_' = info_
            /\ pc' = pc]_vars

(* C15 witness: a ConfigCb call emptied a buffer that held packets *)
C15_Witness ==
    /\ last.op = "ConfigCb"
    /\ dropped
    /\ buffer_ = << >>

(* The point the cloud must hold for a cell. *)
ExpectedPoint(data, phi) ==
    IF isnan(data[1])
    THEN [x |-> kNaNF, y |-> kNaNF, z |-> kNaNF, intensity |-> kNaNF]
    ELSE [x |-> data[1] * Cos(phi) * Cos(data[3]),
          y |-> -(data[1] * Cos(phi) * Sin(data[3])),
          z |-> data[1] * Sin(phi),
          intensity |-> data[2]]

(* The organized point sequence of an image: cell (r, c) at index r*C + c. *)
OrganizedPoints(image, D) ==
    [i \in 1 .. (image.rows * image.cols) |->
        ExpectedPoint(image.at[<<(i - 1) \div image.cols, (i - 1) % image.cols>>],
                      D[(i - 1) \div image.cols])]

IsPlaceholder(p) == isnan(p.x) /\ isnan(p.y) /\ isnan(p.z) /\ isnan(p.intensity)
NotPlaceholder(p) == ~IsPlaceholder(p)

(* C16: the organized cloud holds at index r*C + c the point of cell       *)
(* (r, c), an all-NaN placeholder when the cell is empty; the unorganized  *)
(* cloud is that sequence with the placeholders removed.                   *)
C16_OrganizedAndUnorganizedOrder ==
    Emitted =>
        LET image == out[1].image
            points == out[2].cloud.points
            organizedPoints == OrganizedPoints(image, out[1].D)
        IN IF config_.organized
           THEN points = organizedPoints
           ELSE points = SelectSeq(organizedPoints, NotPlaceholder)

(* C16 witness: an unorganized cloud that skipped the first cell of the    *)
(* image and kept others, from a sweep of two packets or more              *)
C16_Witness ==
    /\ Emitted
    /\ ~config_.organized
    /\ out[1].image.cols >= 2 * columns_per_buffer
    /\ isnan(out[1].image.at[<<0, 0>>][1])
    /\ Len(out[2].cloud.points) > pixels_per_column

ConvertedInfo(info) ==
    \/ /\ info.beam_altitude_angles = [r \in Rows |-> deg2rad(beam_altitude_angles[r])]
       /\ info.beam_azimuth_angles = [r \in Rows |-> deg2rad(beam_azimuth_angles[r])]
    \/ /\ info.beam_altitude_angles
             = [r \in Rows |-> deg2rad(SrvResponse.beam_altitude_angles[r])]
       /\ info.beam_azimuth_angles
             = [r \in Rows |-> deg2rad(SrvResponse.beam_azimuth_angles[r])]

(* C18: every LidarPacketCb call starts after the constructor has          *)
(* finished: a configuration has been applied by ConfigCb and the          *)
(* calibration is populated and in radians; once main is in ros::spin()    *)
(* no call changes the calibration.                                        *)
C18_InitBeforePackets ==
    [][/\ (last'.op = "LidarPacketCb") =>
            /\ pc = "spin"
            /\ subscribed
            /\ config_ # NoConfig
            /\ ConvertedInfo(info_)
       /\ (pc = "spin") => (info_' = info_)]_vars

(* C18 witness: a packet was processed with the calibration of the service *)
C18_Witness ==
    /\ last.op = "LidarPacketCb"
    /\ pc = "spin"
    /\ info_.hostname = "os1-sensor"

(* C19 (the claim): every emitted image has as many columns as the stored  *)
(* image_width.                                                            *)
C19_ColsEqualWidth ==
    Emitted => (out[1].image.cols = config_.image_width)

(* C19 (amended): every emitted image has as many columns as the stored    *)
(* image_width, except that a stored image_width of 0 gives an image of    *)
(* one packet, columns_per_buffer columns.                                 *)
C19_ColsEqualWidthOrOnePacket ==
    Emitted =>
        (out[1].image.cols =
            IF config_.image_width = 0 THEN columns_per_buffer
            ELSE config_.image_width)

(* C19 witness: a sweep emitted with a stored image_width of 0 *)
C19_Witness ==
    /\ Emitted
    /\ config_.image_width = 0
    /\ out[1].image.cols = columns_per_buffer

(* Between calls the buffer is empty or below the width, and holds the     *)
(* packets delivered since the last emission or reconfiguration.           *)
BufferBelowWidth ==
    /\ (buffer_ = << >> \/ Len(buffer_) * columns_per_buffer < config_.image_width)
    /\ buffer_ = sinceReset

(* C20 (the claim): between calls the buffer is empty or below the width   *)
(* and holds the packets since the last reset; at no point, the push of    *)
(* line 74 included, does it hold more than image_width /                  *)
(* columns_per_buffer packets.                                             *)
C20_BufferBounded ==
    [][/\ BufferBelowWidth'
       /\ (last'.op = "LidarPacketCb") =>
            (Len(buffer_) + 1 <= config_.image_width \div columns_per_buffer)]_vars

(* C20 (amended): as the claim, with the bound max(1, image_width /        *)
(* columns_per_buffer): with a stored image_width of 0 the buffer holds    *)
(* one packet between the push of line 74 and the clear of line 138.       *)
C20_BufferBoundedAtLeastOne ==
    [][/\ BufferBelowWidth'
       /\ (last'.op = "LidarPacketCb") =>
            (Len(buffer_) + 1 <=
                IF config_.image_width = 0 THEN 1
                ELSE config_.image_width \div columns_per_buffer)]_vars

(* C20 witness: the buffer one packet short of the sweep *)
C20_Witness ==
    /\ last.op = "LidarPacketCb"
    /\ Len(buffer_) > 0
    /\ (Len(buffer_) + 1) * columns_per_buffer = config_.image_width
    /\ buffer_ = sinceReset

====
